---- MODULE Spec2Model ----
(***************************************************************************)
(* Model of flask_potion/backends/__init__.py: the base Manager (key       *)
(* converter set-up, lazily cached filters, first, delete_by_id, the       *)
(* extension-point stubs) and the Pagination value type.                   *)
(***************************************************************************)
EXTENDS Integers, Sequences, FiniteSets, TLC

VARIABLES
    pagination,   \* the Pagination object last constructed
    pcall,        \* how it was constructed: the call and its arguments
    meta,         \* resource.meta, the configuration bag the Manager reads and writes
    fields,       \* resource.schema.fields: field name -> field
    impl,         \* "base": the Manager of this file; "backend": a subclass overriding Overridden
    store,        \* the ids of the items the backend holds
    phase,        \* "none" before Manager.__init__, then "ready" or "failed"
    cache,        \* the "filters" entry of the Manager instance's __dict__
    builds,       \* how often the body of Manager.filters ran on this instance
    accesses,     \* how often manager.filters was read on this instance
    got,          \* what the first and the latest read of manager.filters returned
    last          \* the last Manager call: operation, arguments, outcome, calls made

pvars == <<pagination, pcall>>
mvars == <<meta, fields, impl, store, phase, cache, builds, accesses, got, last>>
vars == <<pagination, pcall, meta, fields, impl, store, phase, cache, builds,
          accesses, got, last>>

-----------------------------------------------------------------------------
(* Bounds of the model *)

MaxLen == 5          \* longest list handed to Pagination
MaxPage == 5         \* largest page number asked for
MaxNegPage == 2      \* page numbers down to -MaxNegPage are asked for
MaxPerPage == 3      \* largest per_page
MaxTotal == 7        \* largest total handed to Pagination.__init__
MaxId == 2           \* item ids are 1..MaxId
MaxKeys == 2         \* longest declared key_converters tuple
MaxConverters == 3   \* a Manager is constructed while meta has at most this many converters
MaxAccesses == 2     \* reads of manager.filters that are counted

\* the lists [1], [1, 2], ...: distinct elements, so that an element names its position
Lists == {[i \in 1..n |-> i] : n \in 0..MaxLen}
Pages == (0 - MaxNegPage)..MaxPage
PerPages == 1..MaxPerPage
Totals == 0..MaxTotal

-----------------------------------------------------------------------------
(* Python primitives used by Pagination *)

Max(a, b) == IF a >= b THEN a ELSE b

\* int(ceil(a / b)) under true division, for b > 0
CeilDiv(a, b) == IF a % b = 0 THEN a \div b ELSE (a \div b) + 1

\* how a slice bound i is resolved against a sequence of length n
SliceIndex(i, n) ==
    IF i < 0 THEN (IF i + n < 0 THEN 0 ELSE i + n)
    ELSE (IF i > n THEN n ELSE i)

\* s[start:stop], with 0-based bounds as in Python
Slice(s, start, stop) ==
    LET lo == SliceIndex(start, Len(s))
        hi == SliceIndex(stop, Len(s))
    IN  IF lo >= hi THEN <<>> ELSE [k \in 1..(hi - lo) |-> s[lo + k]]

-----------------------------------------------------------------------------
(* class Pagination *)

Pagination(items, page, per_page, total) ==
    [items |-> items, page |-> page, per_page |-> per_page, total |-> total]

\* pages without the floor of one page
pages_unfloored(self) == CeilDiv(self.total, self.per_page)

pages(self) == Max(1, CeilDiv(self.total, self.per_page))

has_prev(self) == self.page > 1

\* has_next counting the last page as having a next one
has_next_inclusive(self) == self.page <= pages(self)

has_next(self) == self.page < pages(self)

\* from_list taking page as 0-based
from_list_zero_based(items, page, per_page) ==
    LET start == per_page * page
    IN  Pagination(Slice(items, start, start + per_page), page, per_page, Len(items))

from_list(items, page, per_page) ==
    LET start == per_page * (page - 1)
    IN  Pagination(Slice(items, start, start + per_page), page, per_page, Len(items))

-----------------------------------------------------------------------------
(* Values and outcomes of Manager calls *)

NoneVal == [t |-> "None", v |-> <<>>]
ItemVal(id) == [t |-> "item", v |-> <<id>>]
ListVal(ids) == [t |-> "list", v |-> ids]

Return(v) == [kind |-> "return", exc |-> "", resource |-> "", where |-> <<>>, id |-> 0,
              value |-> v]
Raise(exc, resource, where, id) ==
    [kind |-> "raise", exc |-> exc, resource |-> resource, where |-> where, id |-> id,
     value |-> NoneVal]

\* one call made by a Manager method on itself: the method, its arguments, its outcome
Call(method, args, out) == [method |-> method, args |-> args, out |-> out]

Ids == 1..MaxId

\* the empty dict
EmptyMap == [x \in {} |-> x]

-----------------------------------------------------------------------------
(* Key converters: Manager._init_key_converters *)

Converter(kind, props) == [kind |-> kind, props |-> props, bound |-> FALSE]
RefKey == Converter("RefKey", <<>>)
IDKey == Converter("IDKey", <<>>)
PropertyKey(prop) == Converter("PropertyKey", <<prop>>)
PropertiesKey(props) == Converter("PropertiesKey", props)

bind(k) == [k EXCEPT !.bound = TRUE]

Absent == [present |-> FALSE, value |-> <<>>]
Present(v) == [present |-> TRUE, value |-> v]

\* the natural_key entry of meta: a property name, a list/tuple of names, or something else
NaturalKey(kind, names) == [present |-> TRUE, kind |-> kind, names |-> names]
NoNaturalKey == [present |-> FALSE, kind |-> "", names |-> <<>>]

\* the matcher type of a field class
FieldMatcher(type) == IF type = "Integer" THEN "integer" ELSE "string"

matcher_type(k) ==
    CASE k.kind = "RefKey" -> "object"
      [] k.kind = "IDKey" -> "integer"
      [] k.kind = "PropertyKey" -> FieldMatcher(fields[k.props[1]].type)
      [] k.kind = "PropertiesKey" -> "array"

NoError == [kind |-> "", mtype |-> "", name |-> ""]
RuntimeError(mtype, name) == [kind |-> "RuntimeError", mtype |-> mtype, name |-> name]
KeyError(key) == [kind |-> "KeyError", mtype |-> "", name |-> key]

\* lines 53-58: the converter of a declared natural key is appended to meta['key_converters']
AppendNaturalKey(m) ==
    IF ~m.natural_key.present \/ m.natural_key.kind \notin {"str", "tuple"}
    THEN [meta |-> m, error |-> NoError]
    ELSE IF ~m.key_converters.present
    THEN [meta |-> m, error |-> KeyError("key_converters")]
    ELSE LET nk == IF m.natural_key.kind = "str"
                   THEN PropertyKey(m.natural_key.names[1])
                   ELSE PropertiesKey(m.natural_key.names)
         IN  [meta |-> [m EXCEPT !.key_converters = Present(Append(@.value, nk))],
              error |-> NoError]

\* the loop without the membership test: a later converter replaces an earlier one
RECURSIVE IndexByType_overwriting(_, _, _, _)
IndexByType_overwriting(kcs, i, by_type, name) ==
    IF i > Len(kcs) THEN [by_type |-> by_type, error |-> NoError]
    ELSE LET t == matcher_type(kcs[i])
         IN  IndexByType_overwriting(kcs, i + 1,
                                     [x \in DOMAIN by_type \cup {t} |->
                                         IF x = t THEN kcs[i] ELSE by_type[x]],
                                     name)

\* lines 63-67: the loop over the bound converters, from position i on, by_type so far
RECURSIVE IndexByType(_, _, _, _)
IndexByType(kcs, i, by_type, name) ==
    IF i > Len(kcs) THEN [by_type |-> by_type, error |-> NoError]
    ELSE LET t == matcher_type(kcs[i])
         IN  IF t \in DOMAIN by_type
             THEN [by_type |-> by_type, error |-> RuntimeError(t, name)]
             ELSE IndexByType(kcs, i + 1,
                              [x \in DOMAIN by_type \cup {t} |->
                                  IF x = t THEN kcs[i] ELSE by_type[x]],
                              name)

_init_key_converters(m) ==
    LET a == AppendNaturalKey(m)
    IN  IF a.error.kind # "" THEN a
        ELSE IF ~a.meta.key_converters.present THEN a
        ELSE LET kcs == [i \in 1..Len(a.meta.key_converters.value) |->
                            bind(a.meta.key_converters.value[i])]
                 r == IndexByType(kcs, 1, EmptyMap, a.meta.name)
             IN  [meta |-> [a.meta EXCEPT !.key_converters = Present(kcs),
                                          !.key_converters_by_type = Present(r.by_type)],
                  error |-> r.error]

-----------------------------------------------------------------------------
(* Filters: Manager._create_filter and the cached property Manager.filters *)

Field(type, attribute) == [type |-> type, attribute |-> attribute]

\* a or b: a unless a is None or empty
PyOr(a, b) == IF a = "None" \/ a = "" THEN b ELSE a

FILTER_NAMES ==
    [n \in {"eq", "lt", "startswith"} |->
        CASE n = "eq" -> "EqualFilter"
          [] n = "lt" -> "LessThanFilter"
          [] n = "startswith" -> "StringStartsWithFilter"]

FILTERS_BY_TYPE ==
    [t \in {"String", "Integer"} |->
        IF t = "String" THEN {"eq", "startswith"} ELSE {"eq", "lt"}]

\* meta.filters: True, False, or a dict field name -> allowed comparator names
FiltersTrue == [mode |-> "true", allow |-> EmptyMap]
FiltersFalse == [mode |-> "false", allow |-> EmptyMap]
FiltersDict(allow) == [mode |-> "dict", allow |-> allow]

\* the comparator names that survive for field fn
FieldFilterNames(fs, expr, fn) ==
    CASE expr.mode = "true" -> FILTERS_BY_TYPE[fs[fn].type]
      [] expr.mode = "false" -> {}
      [] expr.mode = "dict" ->
            IF fn \in DOMAIN expr.allow
            THEN FILTERS_BY_TYPE[fs[fn].type] \cap expr.allow[fn]
            ELSE {}

filters_for_fields(fs, expr) ==
    LET kept == {fn \in DOMAIN fs : FieldFilterNames(fs, expr, fn) # {}}
    IN  [fn \in kept |-> [n \in FieldFilterNames(fs, expr, fn) |-> FILTER_NAMES[n]]]

\* _create_filter ignoring the field's own attribute
_create_filter_declared_name(filter_class, name, field, attribute) ==
    [class |-> filter_class, name |-> name, field |-> field, attribute |-> attribute]

_create_filter(filter_class, name, field, attribute) ==
    [class |-> filter_class, name |-> name, field |-> field,
     attribute |-> PyOr(field.attribute, attribute)]

\* the body of the property, lines 39-50
FiltersBody ==
    LET fs == filters_for_fields(fields, meta.filters)
    IN  [field_name \in DOMAIN fs |->
            [name \in DOMAIN fs[field_name] |->
                _create_filter(fs[field_name][name], name, fields[field_name],
                               field_name)]]

NotCached == [present |-> FALSE, id |-> 0, value |-> EmptyMap]

\* filters as a plain property: the body runs on every read
filters_uncached(c, n) ==
    [cache |-> [present |-> TRUE, id |-> n + 1, value |-> FiltersBody], builds |-> n + 1]

\* a read of manager.filters with c the instance's entry and n the builds so far:
\* cached_property runs the body only when the instance has no entry yet
filters(c, n) ==
    IF c.present THEN [cache |-> c, builds |-> n]
    ELSE [cache |-> [present |-> TRUE, id |-> n + 1, value |-> FiltersBody],
          builds |-> n + 1]

-----------------------------------------------------------------------------
(* Query and CRUD: the stubs of the base class, and a backend overriding some *)

Overridden == IF impl = "backend" THEN {"instances", "create", "read", "delete"} ELSE {}

\* a where clause is a tuple of conditions on the id, <<comparator, value>>
Conditions == {<<c, v>> : c \in {"eq", "lt"}, v \in Ids}
Wheres == {<<>>} \cup {<<c>> : c \in Conditions}
Sorts == BOOLEAN   \* reverse or not

Matches(id, where) ==
    \A i \in 1..Len(where) :
        IF where[i][1] = "eq" THEN id = where[i][2] ELSE id < where[i][2]

RECURSIVE Sorted(_, _)
Sorted(S, reverse) ==
    IF S = {} THEN <<>>
    ELSE LET x == IF reverse THEN CHOOSE y \in S : \A z \in S : z <= y
                  ELSE CHOOSE y \in S : \A z \in S : y <= z
         IN  <<x>> \o Sorted(S \ {x}, reverse)

BackendInstances(st, where, sort) ==
    Return(ListVal(Sorted({id \in st : Matches(id, where)}, sort)))

BackendRead(st, id) ==
    IF id \in st THEN Return(ItemVal(id)) ELSE Raise("ItemNotFound", meta.name, <<>>, id)

\* each returns the outcome and the store it leaves
instances(st, where, sort) ==
    IF "instances" \in Overridden
    THEN [out |-> BackendInstances(st, where, sort), store |-> st]
    ELSE [out |-> Return(NoneVal), store |-> st]

paginated_instances(st, page, per_page, where, sort) ==
    [out |-> Return(NoneVal), store |-> st]

create(st, id) ==
    IF "create" \in Overridden
    THEN [out |-> Return(ItemVal(id)), store |-> st \cup {id}]
    ELSE [out |-> Return(NoneVal), store |-> st]

read(st, id) ==
    IF "read" \in Overridden
    THEN [out |-> BackendRead(st, id), store |-> st]
    ELSE [out |-> Return(NoneVal), store |-> st]

update(st, item, changes) ==
    [out |-> Return(NoneVal), store |-> st]

delete(st, item) ==
    IF "delete" \in Overridden /\ item.t = "item"
    THEN [out |-> Return(NoneVal), store |-> st \ {item.v[1]}]
    ELSE [out |-> Return(NoneVal), store |-> st]

relation_instances(item, attribute) == Raise("NotImplementedError", "", <<>>, 0)

relation_add(item, attribute, target_item) == Raise("NotImplementedError", "", <<>>, 0)

relation_remove(item, attribute, target_item) == Raise("NotImplementedError", "", <<>>, 0)

\* v[0]
Subscript0(v) ==
    CASE v.t = "list" /\ v.v # <<>> -> Return(ItemVal(v.v[1]))
      [] v.t = "list" /\ v.v = <<>> -> Raise("IndexError", "", <<>>, 0)
      [] OTHER -> Raise("TypeError", "", <<>>, 0)

\* first without the try/except
first_uncaught(st, where, sort) ==
    LET r == instances(st, where, sort)
    IN  [out |-> IF r.out.kind = "raise" THEN r.out ELSE Subscript0(r.out.value),
         calls |-> <<Call("instances", <<where, sort>>, r.out)>>, store |-> r.store]

first(st, where, sort) ==
    LET r == instances(st, where, sort)
        calls == <<Call("instances", <<where, sort>>, r.out)>>
        got0 == IF r.out.kind = "raise" THEN r.out ELSE Subscript0(r.out.value)
    IN  [out |-> IF got0.kind = "raise" /\ got0.exc = "IndexError"
                 THEN Raise("ItemNotFound", meta.name, where, 0)
                 ELSE got0,
         calls |-> calls, store |-> r.store]

\* delete_by_id that swallows the failure of read and deletes anyway
delete_by_id_swallowing(st, id) ==
    LET r == read(st, id)
        c1 == Call("read", <<id>>, r.out)
        item == IF r.out.kind = "raise" THEN NoneVal ELSE r.out.value
        d == delete(r.store, item)
    IN  [out |-> d.out, calls |-> <<c1, Call("delete", <<item>>, d.out)>>,
         store |-> d.store]

delete_by_id(st, id) ==
    LET r == read(st, id)
        c1 == Call("read", <<id>>, r.out)
    IN  IF r.out.kind = "raise"
        THEN [out |-> r.out, calls |-> <<c1>>, store |-> r.store]
        ELSE LET d == delete(r.store, r.out.value)
             IN  [out |-> d.out, calls |-> <<c1, Call("delete", <<r.out.value>>, d.out)>>,
                  store |-> d.store]

-----------------------------------------------------------------------------
(* Pagination: the operations *)

PCall(op, items, page, per_page, total) ==
    [op |-> op, items |-> items, page |-> page, per_page |-> per_page, total |-> total]

PaginationInit ==
    /\ \E items \in Lists, page \in Pages, per_page \in PerPages, total \in Totals :
        /\ pagination' = Pagination(items, page, per_page, total)
        /\ pcall' = PCall("__init__", items, page, per_page, total)
    /\ UNCHANGED mvars

FromList ==
    /\ \E items \in Lists, page \in Pages, per_page \in PerPages :
        /\ pagination' = from_list(items, page, per_page)
        /\ pcall' = PCall("from_list", items, page, per_page, Len(items))
    /\ UNCHANGED mvars

-----------------------------------------------------------------------------
(* Manager: the operations *)

Last(op, args, out, calls) == [op |-> op, args |-> args, out |-> out, calls |-> calls]

NoGot == [first |-> NotCached, latest |-> NotCached]

\* Manager(resource, model): a new instance, with an empty __dict__ but for resource, model
ManagerInit ==
    /\ meta.key_converters.present => Len(meta.key_converters.value) <= MaxConverters
    /\ LET r == _init_key_converters(meta)
       IN  /\ meta' = r.meta
           /\ phase' = IF r.error.kind = "" THEN "ready" ELSE "failed"
           /\ last' = Last("__init__", <<meta>>,
                           IF r.error.kind = "" THEN Return(NoneVal)
                           ELSE Raise(r.error.kind, r.error.name, <<>>, 0),
                           <<r.error>>)
    /\ cache' = NotCached
    /\ builds' = 0
    /\ accesses' = 0
    /\ got' = NoGot
    /\ UNCHANGED <<fields, impl, store, pagination, pcall>>

\* manager.filters
FiltersGet ==
    /\ phase = "ready"
    /\ accesses < MaxAccesses
    /\ LET r == filters(cache, builds)
       IN  /\ cache' = r.cache
           /\ builds' = r.builds
           /\ got' = [first |-> IF accesses = 0 THEN r.cache ELSE got.first,
                      latest |-> r.cache]
           /\ last' = Last("filters", <<>>, Return(NoneVal), <<>>)
    /\ accesses' = accesses + 1
    /\ UNCHANGED <<meta, fields, impl, store, phase, pagination, pcall>>

\* what a query or CRUD call leaves alone
Untouched == <<meta, fields, impl, phase, cache, builds, accesses, got, pagination, pcall>>

First ==
    /\ phase = "ready"
    /\ \E where \in Wheres, sort \in Sorts :
        LET r == first(store, where, sort)
        IN  /\ last' = Last("first", <<where, sort>>, r.out, r.calls)
            /\ store' = r.store
    /\ UNCHANGED Untouched

DeleteById ==
    /\ phase = "ready"
    /\ \E id \in Ids :
        LET r == delete_by_id(store, id)
        IN  /\ last' = Last("delete_by_id", <<id>>, r.out, r.calls)
            /\ store' = r.store
    /\ UNCHANGED Untouched

Instances ==
    /\ phase = "ready"
    /\ \E where \in Wheres, sort \in Sorts :
        LET r == instances(store, where, sort)
        IN  /\ last' = Last("instances", <<where, sort>>, r.out, <<>>)
            /\ store' = r.store
    /\ UNCHANGED Untouched

PaginatedInstances ==
    /\ phase = "ready"
    /\ \E page \in 1..MaxId, where \in Wheres :
        LET r == paginated_instances(store, page, MaxPerPage, where, FALSE)
        IN  /\ last' = Last("paginated_instances", <<page, MaxPerPage, where, FALSE>>,
                            r.out, <<>>)
            /\ store' = r.store
    /\ UNCHANGED Untouched

Create ==
    /\ phase = "ready"
    /\ \E id \in Ids \ store :
        LET r == create(store, id)
        IN  /\ last' = Last("create", <<id>>, r.out, <<>>)
            /\ store' = r.store
    /\ UNCHANGED Untouched

Read ==
    /\ phase = "ready"
    /\ \E id \in Ids :
        LET r == read(store, id)
        IN  /\ last' = Last("read", <<id>>, r.out, <<>>)
            /\ store' = r.store
    /\ UNCHANGED Untouched

Update ==
    /\ phase = "ready"
    /\ \E id \in Ids, changes \in {"name", "age"} :
        LET r == update(store, ItemVal(id), changes)
        IN  /\ last' = Last("update", <<ItemVal(id), changes>>, r.out, <<>>)
            /\ store' = r.store
    /\ UNCHANGED Untouched

Delete ==
    /\ phase = "ready"
    /\ \E id \in Ids :
        LET r == delete(store, ItemVal(id))
        IN  /\ last' = Last("delete", <<ItemVal(id)>>, r.out, <<>>)
            /\ store' = r.store
    /\ UNCHANGED Untouched

RelationAttributes == {"children", "tags"}

RelationInstances ==
    /\ phase = "ready"
    /\ \E id \in Ids, attribute \in RelationAttributes :
        last' = Last("relation_instances", <<ItemVal(id), attribute>>,
                     relation_instances(ItemVal(id), attribute), <<>>)
    /\ UNCHANGED store
    /\ UNCHANGED Untouched

RelationAdd ==
    /\ phase = "ready"
    /\ \E id \in Ids, attribute \in RelationAttributes, target \in Ids :
        last' = Last("relation_add", <<ItemVal(id), attribute, ItemVal(target)>>,
                     relation_add(ItemVal(id), attribute, ItemVal(target)), <<>>)
    /\ UNCHANGED store
    /\ UNCHANGED Untouched

RelationRemove ==
    /\ phase = "ready"
    /\ \E id \in Ids, attribute \in RelationAttributes, target \in Ids :
        last' = Last("relation_remove", <<ItemVal(id), attribute, ItemVal(target)>>,
                     relation_remove(ItemVal(id), attribute, ItemVal(target)), <<>>)
    /\ UNCHANGED store
    /\ UNCHANGED Untouched

-----------------------------------------------------------------------------
(* Resources the Managers are constructed for *)

Meta(natural_key, key_converters, filter_expr) ==
    [name |-> "user", natural_key |-> natural_key, key_converters |-> key_converters,
     key_converters_by_type |-> Absent, filters |-> filter_expr]

Schemas ==
    {[fn \in {"name", "age"} |->
        IF fn = "name" THEN Field("String", a) ELSE Field("Integer", b)] :
     a \in {"None", "full_name"}, b \in {"None", "years"}}

DefaultSchema ==
    [fn \in {"name", "age"} |->
        IF fn = "name" THEN Field("String", "None") ELSE Field("Integer", "None")]

FilterExprs ==
    {FiltersTrue, FiltersFalse,
     FiltersDict([fn \in {"name", "age"} |-> IF fn = "name" THEN {"lt"} ELSE {"lt", "eq"}])}

DefaultKeyConverters == <<RefKey, IDKey>>

ConverterChoices == {RefKey, IDKey, PropertyKey("name"), PropertiesKey(<<"name", "age">>)}

KeyConverterTuples == UNION {[1..n -> ConverterChoices] : n \in 0..MaxKeys}

NaturalKeys ==
    {NoNaturalKey, NaturalKey("str", <<"name">>), NaturalKey("str", <<"age">>),
     NaturalKey("tuple", <<"name", "age">>), NaturalKey("other", <<>>)}

IdlePagination ==
    /\ pagination = Pagination(<<>>, 1, 1, 0)
    /\ pcall = PCall("__init__", <<>>, 1, 1, 0)

NoManager ==
    /\ phase = "none"
    /\ cache = NotCached
    /\ builds = 0
    /\ accesses = 0
    /\ got = NoGot
    /\ store = {}
    /\ last = Last("", <<>>, Return(NoneVal), <<>>)

-----------------------------------------------------------------------------
(* Specifications *)

\* the Pagination of an empty result
InitPagination ==
    /\ IdlePagination
    /\ meta = Meta(NoNaturalKey, Present(DefaultKeyConverters), FiltersTrue)
    /\ fields = DefaultSchema
    /\ impl = "base"
    /\ NoManager

NextPagination == PaginationInit \/ FromList

SpecPagination == InitPagination /\ [][NextPagination]_vars

\* a resource with the default key converters and no natural key
InitManager ==
    /\ IdlePagination
    /\ \E fe \in FilterExprs : meta = Meta(NoNaturalKey, Present(DefaultKeyConverters), fe)
    /\ fields \in Schemas
    /\ impl \in {"base", "backend"}
    /\ NoManager

NextManager ==
    \/ ManagerInit
    \/ FiltersGet
    \/ First
    \/ DeleteById
    \/ Instances
    \/ PaginatedInstances
    \/ Create
    \/ Read
    \/ Update
    \/ Delete
    \/ RelationInstances
    \/ RelationAdd
    \/ RelationRemove

SpecManager == InitManager /\ [][NextManager]_vars

\* every declaration of key converters and natural key, Managers constructed only
InitKeys ==
    /\ IdlePagination
    /\ \E nk \in NaturalKeys,
          kc \in {Absent} \cup {Present(t) : t \in KeyConverterTuples} :
        meta = Meta(nk, kc, FiltersTrue)
    /\ fields = DefaultSchema
    /\ impl = "base"
    /\ NoManager

NextKeys == ManagerInit

SpecKeys == InitKeys /\ [][NextKeys]_vars

-----------------------------------------------------------------------------
(* Properties of Pagination, in SpecPagination *)

\* the least number of pages of per_page items that hold total items, and at least one
LeastPages(total, per_page) ==
    CHOOSE n \in 1..(total + 1) :
        /\ n * per_page >= total
        /\ n > 1 => (n - 1) * per_page < total

\* C1: for total >= 0 and per_page > 0, pages is max(1, ceil(total / per_page)): it is
\* at least 1, pages * per_page covers total, no smaller number of pages above one does,
\* and it is 1 when total is 0.
C1_PagesIsCeilingAtLeastOne ==
    LET p == pages(pagination)
    IN  /\ p >= 1
        /\ p * pagination.per_page >= pagination.total
        /\ p > 1 => (p - 1) * pagination.per_page < pagination.total
        /\ pagination.total = 0 => p = 1

\* a total that is no multiple of per_page, rounded up to more than one page
C1_Witness ==
    /\ pagination.total % pagination.per_page # 0
    /\ pagination.total > pagination.per_page
    /\ pages(pagination) = (pagination.total \div pagination.per_page) + 1

\* C2: for page >= 1, from_list(items, page, per_page) holds exactly the elements at the
\* 0-based positions start .. start+per_page-1 that exist, in order, with
\* start = per_page * (page - 1); total is len(items); page and per_page are the arguments.
C2_FromListWindow ==
    (pcall.op = "from_list" /\ pcall.page >= 1) =>
        LET start == pcall.per_page * (pcall.page - 1)
            n == Len(pcall.items)
            positions == {k \in 0..(n - 1) : start <= k /\ k <= start + pcall.per_page - 1}
        IN  /\ Len(pagination.items) = Cardinality(positions)
            /\ \A i \in 1..Len(pagination.items) :
                  pagination.items[i] = pcall.items[start + i]
            /\ pagination.total = n
            /\ pagination.page = pcall.page
            /\ pagination.per_page = pcall.per_page

\* the second page of a list that fills it only in part
C2_Witness ==
    /\ pcall.op = "from_list"
    /\ pcall.page = 2
    /\ Len(pcall.items) > pcall.per_page
    /\ Len(pcall.items) < 2 * pcall.per_page
    /\ pagination.items = SubSeq(pcall.items, pcall.per_page + 1, Len(pcall.items))

\* C3: from_list with a page outside 1..pages (beyond the end, or below 1) has empty
\* items and total len(items).
C3_OutOfRangePageIsEmpty ==
    (pcall.op = "from_list" /\ pcall.page \notin 1..pages(pagination)) =>
        /\ pagination.items = <<>>
        /\ pagination.total = Len(pcall.items)

\* C4: has_prev is page > 1 and has_next is page < pages, pages being
\* max(1, ceil(total / per_page)); page 1 of an empty result has neither.
C4_PrevAndNext ==
    /\ has_prev(pagination) <=> pagination.page > 1
    /\ has_next(pagination) <=>
          pagination.page < LeastPages(pagination.total, pagination.per_page)
    /\ (pagination.total = 0 /\ pagination.page = 1) =>
          (~has_prev(pagination) /\ ~has_next(pagination))

\* the last page of several: a previous page and no next one
C4_Witness ==
    /\ pagination.page > 1
    /\ pagination.page = LeastPages(pagination.total, pagination.per_page)
    /\ has_prev(pagination)
    /\ ~has_next(pagination)

-----------------------------------------------------------------------------
(* Properties of the Manager, in SpecManager *)

\* C5: first(where, sort) calls instances(where, sort) once; it returns the first element
\* of a non-empty result; on an empty result it raises ItemNotFound carrying the
\* manager's resource and the where clause passed in; it never raises IndexError.
C5_FirstOrItemNotFound ==
    last.op = "first" =>
        /\ Len(last.calls) = 1
        /\ last.calls[1].method = "instances"
        /\ last.calls[1].args = last.args
        /\ last.calls[1].out = instances(store, last.args[1], last.args[2]).out
        /\ LET res == last.calls[1].out
           IN  /\ (res.kind = "return" /\ res.value.t = "list" /\ res.value.v # <<>>) =>
                     last.out = Return(ItemVal(Head(res.value.v)))
               /\ (res.kind = "return" /\ res.value.t = "list" /\ res.value.v = <<>>) =>
                     /\ last.out.kind = "raise"
                     /\ last.out.exc = "ItemNotFound"
                     /\ last.out.resource = meta.name
                     /\ last.out.where = last.args[1]
        /\ ~(last.out.kind = "raise" /\ last.out.exc = "IndexError")

\* first with a condition that no stored item meets, while the store is not empty
C5_Witness ==
    /\ last.op = "first"
    /\ store # {}
    /\ last.args[1] # <<>>
    /\ last.out.kind = "raise"
    /\ last.out.exc = "ItemNotFound"
    /\ last.out.where = last.args[1]

\* C6: every extension point that is not overridden signals NotImplementedError when
\* called: the relation operations, and the stubs instances, paginated_instances,
\* create, read, update, delete.
C6_StubsSignalNotImplemented ==
    (\/ last.op \in {"relation_instances", "relation_add", "relation_remove"}
     \/ last.op \in {"instances", "paginated_instances", "create", "read", "update",
                     "delete"} \ Overridden) =>
        /\ last.out.kind = "raise"
        /\ last.out.exc = "NotImplementedError"

\* C8: delete_by_id(id) calls read(id) first; when read returns, it calls delete once, on
\* the item read returned, and returns what delete returned; when read raises, the same
\* error is raised and delete is not called.
C8_DeleteByIdReadsThenDeletes ==
    last.op = "delete_by_id" =>
        /\ Len(last.calls) >= 1
        /\ last.calls[1].method = "read"
        /\ last.calls[1].args = last.args
        /\ last.calls[1].out.kind = "raise" =>
              /\ Len(last.calls) = 1
              /\ last.out = last.calls[1].out
        /\ last.calls[1].out.kind = "return" =>
              /\ Len(last.calls) = 2
              /\ last.calls[2].method = "delete"
              /\ last.calls[2].args = <<last.calls[1].out.value>>
              /\ last.out = last.calls[2].out

\* delete_by_id of an id the backend does not hold, next to one it holds
C8_Witness ==
    /\ last.op = "delete_by_id"
    /\ store # {}
    /\ last.out.kind = "raise"
    /\ last.out.exc = "ItemNotFound"
    /\ last.out.id = last.args[1]
    /\ Len(last.calls) = 1

\* C9: construction does not build the filters; the first read of manager.filters
\* builds them; no later read builds them again, and every read returns the mapping
\* the first read returned.
C9_FiltersBuiltOnceOnFirstRead ==
    /\ (phase = "ready" /\ accesses = 0) => (~cache.present /\ builds = 0)
    /\ accesses >= 1 =>
          /\ builds = 1
          /\ cache.present
          /\ got.first = cache
          /\ got.latest = got.first

\* a second read of the filters of one Manager
C9_Witness ==
    /\ accesses >= 2
    /\ builds = 1
    /\ got.latest = got.first
    /\ got.first.present

\* C10: the filters hold one Filter for each (field name, comparator name) pair that
\* filters_for_fields returns and for no other; each is bound to the field's attribute
\* when the field has one and to the field's name in the schema otherwise.
C10_FiltersBoundToAttributeOrName ==
    cache.present =>
        LET util == filters_for_fields(fields, meta.filters)
        IN  /\ DOMAIN cache.value = DOMAIN util
            /\ \A fn \in DOMAIN util :
                  /\ DOMAIN cache.value[fn] = DOMAIN util[fn]
                  /\ \A n \in DOMAIN util[fn] :
                        LET f == cache.value[fn][n]
                        IN  /\ f.class = util[fn][n]
                            /\ f.name = n
                            /\ f.field = fields[fn]
                            /\ f.attribute = IF fields[fn].attribute # "None"
                                             THEN fields[fn].attribute
                                             ELSE fn

\* filters built for a field with an attribute of its own and for a field without one
C10_Witness ==
    /\ cache.present
    /\ fields["name"].attribute = "full_name"
    /\ fields["age"].attribute = "None"
    /\ "name" \in DOMAIN cache.value
    /\ "age" \in DOMAIN cache.value
    /\ cache.value["name"]["eq"].attribute = "full_name"
    /\ cache.value["age"]["lt"].attribute = "age"

-----------------------------------------------------------------------------
(* The property of key converters, in SpecKeys *)

\* the converters a construction from meta m goes through: the declared ones and, when
\* they are declared, the one of a natural key given as a name or as a list of names
ConvertersOf(m) ==
    IF ~m.key_converters.present THEN <<>>
    ELSE IF ~m.natural_key.present THEN m.key_converters.value
    ELSE IF m.natural_key.kind = "str"
    THEN Append(m.key_converters.value, PropertyKey(m.natural_key.names[1]))
    ELSE IF m.natural_key.kind = "tuple"
    THEN Append(m.key_converters.value, PropertiesKey(m.natural_key.names))
    ELSE m.key_converters.value

SharedTypes(kcs) ==
    {matcher_type(kcs[i]) : i \in {i \in 1..Len(kcs) :
        \E j \in 1..Len(kcs) : j # i /\ matcher_type(kcs[j]) = matcher_type(kcs[i])}}

\* C7: constructing a Manager raises RuntimeError whenever two of the resource's key
\* converters (declared ones and the natural key's) have the same matcher type, the
\* error naming such a type and the resource; a construction that succeeds leaves
\* key_converters_by_type with exactly one converter for each matcher type.
C7_OneConverterPerMatcherType ==
    last.op = "__init__" =>
        LET kcs == ConvertersOf(last.args[1])
        IN  /\ SharedTypes(kcs) # {} =>
                  /\ phase = "failed"
                  /\ last.out.kind = "raise"
                  /\ last.out.exc = "RuntimeError"
                  /\ last.calls[1].mtype \in SharedTypes(kcs)
                  /\ last.calls[1].name = last.args[1].name
            /\ (phase = "ready" /\ meta.key_converters.present) =>
                  /\ meta.key_converters_by_type.present
                  /\ Len(meta.key_converters.value) = Len(kcs)
                  /\ DOMAIN meta.key_converters_by_type.value =
                        {matcher_type(kcs[i]) : i \in 1..Len(kcs)}
                  /\ \A t \in DOMAIN meta.key_converters_by_type.value :
                        /\ Cardinality({i \in 1..Len(kcs) : matcher_type(kcs[i]) = t}) = 1
                        /\ \E i \in 1..Len(kcs) :
                              /\ matcher_type(kcs[i]) = t
                              /\ meta.key_converters_by_type.value[t] = bind(kcs[i])

\* a natural key on an integer property next to the id key, both matching integers
C7_Witness ==
    /\ last.op = "__init__"
    /\ last.args[1].natural_key.present
    /\ phase = "failed"
    /\ last.out.exc = "RuntimeError"
    /\ last.calls[1].mtype = "integer"
    /\ last.calls[1].name = "user"

====
